---- MODULE Spec2Model ----
(***************************************************************************)
(* The protocol abstraction layer of urllib3-ext-hface: the HTTP/2 adapter *)
(* (HTTP2ProtocolHyperImpl, protocols/http2/_h2.py) and the two HTTP/3     *)
(* adapters (HTTP3ProtocolAioQuicImpl, protocols/http3/_aioquic.py, and    *)
(* HTTP3ProtocolImpl, protocols/http3/_protocol.py).                       *)
(*                                                                         *)
(* One adapter instance is modelled at a time; impl says which class was   *)
(* constructed.  The wrapped engines (h2, aioquic / qh3) are external      *)
(* libraries: a call into an engine is a nondeterministic choice over the  *)
(* results the engine's interface allows (a list of native notifications,  *)
(* or an exception of one of the kinds exceptions() names).                *)
(*                                                                         *)
(* workload names the family of inputs one run draws from (which           *)
(* notifications the QUIC engine surfaces, which calls the caller makes);  *)
(* it is fixed at construction and every family is explored.               *)
(***************************************************************************)
EXTENDS Integers, Sequences, FiniteSets, TLC

VARIABLES
    impl,             \* the adapter class of this instance: "h2", "aioquic", "h3"
    is_client,        \* configuration.is_client
    _remote_address,  \* self._remote_address (HTTP/3): NoMessage for None
    two,              \* two further instances, A and B, and the heap of their objects
    tls,              \* a QuicTLSConfig, its clone, and the ticket objects they hold
    workload,         \* the family of inputs of this run: "events", "cids", "streams"
    _events,          \* the adapter's event deque (_events in _h2.py, _event_buffer in http3)
    _terminated,      \* self._terminated
    _connection_ids,  \* self._connection_ids (HTTP/3)
    _http,            \* self._http is not None (HTTP/3)
    streams,          \* engine: the ids of the streams this endpoint has opened
    quic_events,      \* engine: the QUIC notifications not yet fetched with next_event()
    quic_close_event, \* engine: QuicConnection._close_event, <<>> (None) or <<a ConnectionTerminated>>
    quic_closed,      \* engine: the close event has been surfaced, the connection is over
    ct_appended,      \* history: how many ConnectionTerminated events were appended (up to MaxCount)
    ct_drained,       \* history: next_event() has returned a ConnectionTerminated event
    cid_log,          \* history: per connection id, what the engine has notified about it
    id_last,          \* history: the id get_available_stream_id() returned last
    last              \* the last call: its name, what the engine surfaced, how it ended

vars == <<impl, is_client, _remote_address, two, tls, workload, _events, _terminated, _connection_ids, _http,
          streams, quic_events, quic_close_event, quic_closed,
          ct_appended, ct_drained, cid_log, id_last, last>>

(***************************************************************************)
(* Bounds of the model.                                                    *)
(***************************************************************************)
\* native notifications one engine call may surface
MaxBatch == 2
\* events held in the deque at one time
MaxQueue == 3
\* streams the caller opens
MaxStreams == 2
\* the clock and the engine's deadline run over 0..MaxTime
MaxTime == 1
\* the history counters stop counting at MaxCount
MaxCount == 2
\* events held in the deque of each of two instances side by side
MaxHeld == 2

\* Python's None, where the other values are numbers
None == -1
\* Python's None, where the other values are strings
NoMessage == "None"

(***************************************************************************)
(* The event model (events/_events.py, re-exported by events/__init__.py). *)
(***************************************************************************)
HandshakeCompleted(alpn_protocol) ==
    [type |-> "HandshakeCompleted", alpn_protocol |-> alpn_protocol]

HeadersReceived(stream_id, headers, end_stream) ==
    [type |-> "HeadersReceived", stream_id |-> stream_id, headers |-> headers,
     end_stream |-> end_stream]

DataReceived(stream_id, data, end_stream) ==
    [type |-> "DataReceived", stream_id |-> stream_id, data |-> data,
     end_stream |-> end_stream]

StreamResetReceived(stream_id, error_code) ==
    [type |-> "StreamResetReceived", stream_id |-> stream_id, error_code |-> error_code]

StreamResetSent(stream_id, error_code) ==
    [type |-> "StreamResetSent", stream_id |-> stream_id, error_code |-> error_code]

GoawayReceived(last_stream_id, error_code) ==
    [type |-> "GoawayReceived", last_stream_id |-> last_stream_id,
     error_code |-> error_code]

ConnectionTerminated(error_code, message) ==
    [type |-> "ConnectionTerminated", error_code |-> error_code, message |-> message]

(***************************************************************************)
(* Helpers.                                                                *)
(***************************************************************************)
RECURSIVE Flatten(_)
Flatten(ss) == IF ss = <<>> THEN <<>> ELSE Head(ss) \o Flatten(Tail(ss))

SeqsUpTo(S, n) == UNION {[1..k -> S] : k \in 0..n}

IsCT(e) == e.type = "ConnectionTerminated"

CountCT(s) == Cardinality({i \in 1..Len(s) : IsCT(s[i])})

Max(S) == CHOOSE x \in S : \A y \in S : y <= x

Min(S) == CHOOSE x \in S : \A y \in S : x <= y

Count(n, k) == IF n + k > MaxCount THEN MaxCount ELSE n + k

\* the record of one call: op, the native notifications the engine surfaced to it,
\* the error it raised to the caller, the engine error it caught, the engine
\* methods it invoked, what it returned, and the <<length, stream id>> pairs it
\* acknowledged to the engine, in order
Call(op, engine) ==
    [op |-> op, native |-> <<>>, raised |-> "none", caught |-> "none",
     engine |-> engine, ret_id |-> None, prev_id |-> None, ret_event |-> <<>>,
     arg |-> None, error_code |-> None, data |-> NoMessage, timer |-> None,
     frame_type |-> None, acked |-> <<>>, headers |-> <<>>, sent_headers |-> <<>>]

Raised(op, engine, kind) == [Call(op, engine) EXCEPT !.raised = kind]

\* the error an engine call raises: its kind, its error_code, str(e)
EngineErrors(kinds) == [kind : kinds, error_code : {1}, message : {"err"}]

\* a header list with a repeated pair, names out of alphabetical order, mixed case
Hdrs == << <<"b", "2">>, <<"b", "2">>, <<"A", "1">> >>

ErrorCodes == {0, 1}

\* the families of inputs: "events" (the engine surfaces notifications, the caller
\* feeds bytes, drains events and closes), "cids" (the QUIC engine issues and
\* retires connection ids), "streams" (the caller allocates ids and submits on streams)
Workloads == {"events", "cids", "streams"}

(***************************************************************************)
(* The h2 engine, as far as the adapter sees it.                           *)
(***************************************************************************)
\* the h2.events receive_data() may return; stream_ended is the StreamEnded event
\* related to the event, or None
H2Native ==
    { [kind |-> "ResponseReceived", stream_id |-> 1, headers |-> Hdrs,
       stream_ended |-> NoMessage],
      [kind |-> "DataReceived", stream_id |-> 1, data |-> "d",
       flow_controlled_length |-> 2, stream_ended |-> "StreamEnded"],
      [kind |-> "StreamReset", stream_id |-> 1, error_code |-> 1],
      [kind |-> "ConnectionTerminated", last_stream_id |-> 1, error_code |-> 0],
      [kind |-> "SettingsAcknowledged"],
      [kind |-> "WindowUpdated"] }

\* exceptions(): the error kinds of the h2 engine
H2_exceptions == {"ProtocolError", "H2Error"}

\* except h2.exceptions.ProtocolError: H2Error is its base class and is not caught
H2_isProtocolError(kind) == kind = "ProtocolError"

\* the error codes the caller resets a stream with
ResetCodes == {1}

\* the stream ids a client opens with this engine
H2_StreamIds == {2 * k - 1 : k \in 1..MaxStreams}

\* a variant that answers the highest id opened
H2_get_next_available_stream_id_highest(opened) ==
    IF opened = {} THEN 1 ELSE Max(opened)

\* get_available_stream_id(): H2Connection.get_next_available_stream_id(), the
\* highest id opened plus 2; the id is not reserved
H2_get_next_available_stream_id(opened) ==
    IF opened = {} THEN 1 ELSE Max(opened) + 2

(***************************************************************************)
(* HTTP2ProtocolHyperImpl.                                                 *)
(***************************************************************************)
h3_state == <<_connection_ids, _http, quic_events, quic_close_event, quic_closed,
              cid_log>>

fixed == <<impl, is_client, _remote_address, workload, two, tls>>

\* is_available() / has_expired() / has_pending_event(), the same in the three classes
is_available_always == TRUE

is_available == ~_terminated

has_expired == _terminated

has_pending_event == Len(_events) > 0

\* a variant of _map_events that takes GOAWAY for the end of the connection
H2_map_event_goaway_fatal(e) ==
    IF e.kind \in {"RequestReceived", "ResponseReceived", "TrailersReceived"}
    THEN <<HeadersReceived(e.stream_id, e.headers, e.stream_ended # NoMessage)>>
    ELSE IF e.kind = "DataReceived"
    THEN <<DataReceived(e.stream_id, e.data, e.stream_ended # NoMessage)>>
    ELSE IF e.kind = "StreamReset"
    THEN <<StreamResetReceived(e.stream_id, e.error_code)>>
    ELSE IF e.kind = "ConnectionTerminated"
    THEN <<ConnectionTerminated(e.error_code, NoMessage)>>
    ELSE IF e.kind = "SettingsAcknowledged"
    THEN <<HandshakeCompleted("h2")>>
    ELSE <<>>

\* a header list as a dict built from it would keep it: each pair once
RECURSIVE Merged(_)
Merged(headers) ==
    IF headers = <<>> THEN <<>>
    ELSE LET init == Merged(SubSeq(headers, 1, Len(headers) - 1))
             pair == headers[Len(headers)]
         IN  IF \E i \in 1..Len(init) : init[i] = pair THEN init
             ELSE Append(init, pair)

\* a variant of _map_events that merges repeated headers
H2_map_event_headers_merged(e) ==
    IF e.kind \in {"RequestReceived", "ResponseReceived", "TrailersReceived"}
    THEN <<HeadersReceived(e.stream_id, Merged(e.headers), e.stream_ended # NoMessage)>>
    ELSE IF e.kind = "DataReceived"
    THEN <<DataReceived(e.stream_id, e.data, e.stream_ended # NoMessage)>>
    ELSE IF e.kind = "StreamReset"
    THEN <<StreamResetReceived(e.stream_id, e.error_code)>>
    ELSE IF e.kind = "ConnectionTerminated"
    THEN <<GoawayReceived(e.last_stream_id, e.error_code)>>
    ELSE IF e.kind = "SettingsAcknowledged"
    THEN <<HandshakeCompleted("h2")>>
    ELSE <<>>

\* _map_events, one h2 event: the events it yields (end_stream = e.stream_ended is not None)
H2_map_event(e) ==
    IF e.kind \in {"RequestReceived", "ResponseReceived", "TrailersReceived"}
    THEN <<HeadersReceived(e.stream_id, e.headers, e.stream_ended # NoMessage)>>
    ELSE IF e.kind = "DataReceived"
    THEN <<DataReceived(e.stream_id, e.data, e.stream_ended # NoMessage)>>
    ELSE IF e.kind = "StreamReset"
    THEN <<StreamResetReceived(e.stream_id, e.error_code)>>
    ELSE IF e.kind = "ConnectionTerminated"
    THEN <<GoawayReceived(e.last_stream_id, e.error_code)>>
    ELSE IF e.kind = "SettingsAcknowledged"
    THEN <<HandshakeCompleted("h2")>>
    ELSE <<>>

\* _map_events: the events of the whole list, in the list's order
H2_map_events(h2_events) ==
    Flatten([i \in 1..Len(h2_events) |-> H2_map_event(h2_events[i])])

\* the engine calls _map_events makes: acknowledge_received_data per DataReceived
H2_map_events_calls(h2_events) ==
    IF \E i \in 1..Len(h2_events) : h2_events[i].kind = "DataReceived"
    THEN {"acknowledge_received_data"}
    ELSE {}

\* a variant of _map_events that acknowledges nothing
H2_map_events_acks_none(h2_events) == <<>>

\* _map_events: acknowledge_received_data(e.flow_controlled_length, e.stream_id) for
\* each DataReceived, in the list's order, before its event is yielded; the engine
\* takes the acknowledgement of data it has itself reported
H2_map_events_acks(h2_events) ==
    Flatten([i \in 1..Len(h2_events) |->
               IF h2_events[i].kind = "DataReceived"
               THEN << <<h2_events[i].flow_controlled_length, h2_events[i].stream_id>> >>
               ELSE <<>>])

\* a variant of _connection_terminated without the guard on self._terminated
H2_connection_terminated_unguarded(error_code, message) ==
    /\ Len(_events) < MaxQueue
    /\ _terminated' = TRUE
    /\ _events' = Append(_events, ConnectionTerminated(error_code, message))
    /\ ct_appended' = Count(ct_appended, 1)

\* a variant of _connection_terminated that sets the flag and appends nothing
H2_connection_terminated_silent(error_code, message) ==
    /\ _terminated' = TRUE
    /\ UNCHANGED <<_events, ct_appended>>

\* _connection_terminated(error_code, message)
H2_connection_terminated(error_code, message) ==
    IF _terminated
    THEN UNCHANGED <<_terminated, _events, ct_appended>>
    ELSE /\ Len(_events) < MaxQueue
         /\ _terminated' = TRUE
         /\ _events' = Append(_events, ConnectionTerminated(error_code, message))
         /\ ct_appended' = Count(ct_appended, 1)

H2_connection_lost ==
    /\ impl = "h2"
    /\ H2_connection_terminated(0, NoMessage)
    /\ last' = Call("connection_lost", {})
    /\ UNCHANGED <<fixed, h3_state, streams, ct_drained, id_last>>

H2_eof_received ==
    /\ impl = "h2"
    /\ H2_connection_terminated(0, NoMessage)
    /\ last' = Call("eof_received", {})
    /\ UNCHANGED <<fixed, h3_state, streams, ct_drained, id_last>>

\* a variant of the check that lets empty input through to the engine
H2_not_data_never(data) == FALSE

\* if not data: return
H2_not_data(data) == data = ""

H2_bytes_received ==
    /\ impl = "h2"
    /\ workload = "events"
    /\ \E data \in {"", "x"} :
         IF H2_not_data(data)
         THEN /\ last' = [Call("bytes_received", {}) EXCEPT !.data = data]
              /\ UNCHANGED <<_terminated, _events, ct_appended>>
         ELSE \/ \E h2_events \in SeqsUpTo(H2Native, MaxBatch) :
                   /\ Len(_events) + Len(H2_map_events(h2_events)) <= MaxQueue
                   /\ _events' = _events \o H2_map_events(h2_events)
                   /\ ct_appended' = Count(ct_appended, CountCT(H2_map_events(h2_events)))
                   /\ last' = [Call("bytes_received",
                                    {"receive_data"} \cup H2_map_events_calls(h2_events))
                               EXCEPT !.native = h2_events,
                                      !.data = data,
                                      !.acked = H2_map_events_acks(h2_events)]
                   /\ UNCHANGED _terminated
              \/ \E e \in EngineErrors(H2_exceptions) :
                   IF H2_isProtocolError(e.kind)
                   THEN /\ H2_connection_terminated(e.error_code, e.message)
                        /\ last' = [Call("bytes_received", {"receive_data"})
                                    EXCEPT !.caught = e.kind, !.data = data]
                   ELSE /\ last' = [Raised("bytes_received", {"receive_data"}, e.kind)
                                    EXCEPT !.data = data]
                        /\ UNCHANGED <<_terminated, _events, ct_appended>>
    /\ UNCHANGED <<fixed, h3_state, streams, ct_drained, id_last>>

H2_bytes_to_send ==
    /\ impl = "h2"
    /\ last' = Call("bytes_to_send", {"data_to_send"})
    /\ UNCHANGED <<fixed, h3_state, _terminated, _events, ct_appended, streams,
                   ct_drained, id_last>>

H2_get_available_stream_id ==
    /\ impl = "h2"
    /\ workload = "streams"
    /\ LET id == H2_get_next_available_stream_id(streams) IN
         /\ id_last' = id
         /\ last' = [Call("get_available_stream_id", {"get_next_available_stream_id"})
                     EXCEPT !.ret_id = id, !.prev_id = id_last]
    /\ UNCHANGED <<fixed, h3_state, _terminated, _events, ct_appended, streams,
                   ct_drained>>

H2_submit_close ==
    /\ impl = "h2"
    /\ workload = "events"
    /\ \E error_code \in ErrorCodes :
         last' = [Call("submit_close", {"close_connection"}) EXCEPT !.arg = error_code]
    /\ UNCHANGED <<fixed, h3_state, _terminated, _events, ct_appended, streams,
                   ct_drained, id_last>>

\* send_headers opens stream_id when it is new; the engine accepts a new id only
\* above every id already opened, and may reject any call with one of its errors
H2_submit_headers ==
    /\ impl = "h2"
    /\ workload = "streams"
    /\ \E stream_id \in H2_StreamIds :
         \/ /\ stream_id \in streams \/ \A s \in streams : s < stream_id
            /\ streams' = streams \cup {stream_id}
            /\ last' = [Call("submit_headers", {"send_headers"})
                        EXCEPT !.headers = Hdrs, !.sent_headers = Hdrs]
         \/ \E e \in EngineErrors(H2_exceptions) :
              /\ last' = [Raised("submit_headers", {"send_headers"}, e.kind)
                          EXCEPT !.headers = Hdrs, !.sent_headers = Hdrs]
              /\ UNCHANGED streams
    /\ UNCHANGED <<fixed, h3_state, _terminated, _events, ct_appended, ct_drained,
                   id_last>>

H2_submit_data ==
    /\ impl = "h2"
    /\ workload = "streams"
    /\ \E stream_id \in H2_StreamIds :
         \/ /\ stream_id \in streams
            /\ last' = Call("submit_data", {"send_data"})
         \/ \E e \in EngineErrors(H2_exceptions) :
              last' = Raised("submit_data", {"send_data"}, e.kind)
    /\ UNCHANGED <<fixed, h3_state, _terminated, _events, ct_appended, streams,
                   ct_drained, id_last>>

\* a variant of submit_stream_reset that puts the event at the head of the deque
H2_submit_stream_reset_appendleft ==
    /\ impl = "h2"
    /\ workload = "streams"
    /\ \E stream_id \in H2_StreamIds, error_code \in ResetCodes :
         \/ /\ stream_id \in streams
            /\ Len(_events) < MaxQueue
            /\ _events' = <<StreamResetSent(stream_id, error_code)>> \o _events
            /\ last' = [Call("submit_stream_reset", {"reset_stream"})
                        EXCEPT !.arg = stream_id, !.error_code = error_code]
         \/ \E e \in EngineErrors(H2_exceptions) :
              /\ last' = [Raised("submit_stream_reset", {"reset_stream"}, e.kind)
                          EXCEPT !.arg = stream_id, !.error_code = error_code]
              /\ UNCHANGED _events
    /\ UNCHANGED <<fixed, h3_state, _terminated, ct_appended, streams, ct_drained,
                   id_last>>

\* a variant of submit_stream_reset that appends the event before it calls the engine
H2_submit_stream_reset_event_first ==
    /\ impl = "h2"
    /\ workload = "streams"
    /\ \E stream_id \in H2_StreamIds, error_code \in ResetCodes :
         /\ Len(_events) < MaxQueue
         /\ _events' = Append(_events, StreamResetSent(stream_id, error_code))
         /\ \/ /\ stream_id \in streams
               /\ last' = [Call("submit_stream_reset", {"reset_stream"})
                           EXCEPT !.arg = stream_id, !.error_code = error_code]
            \/ \E e \in EngineErrors(H2_exceptions) :
                 last' = [Raised("submit_stream_reset", {"reset_stream"}, e.kind)
                          EXCEPT !.arg = stream_id, !.error_code = error_code]
    /\ UNCHANGED <<fixed, h3_state, _terminated, ct_appended, streams, ct_drained,
                   id_last>>

\* submit_stream_reset(stream_id, error_code): the engine resets a stream that is
\* open, or rejects the call; the event is appended after the engine returned
H2_submit_stream_reset ==
    /\ impl = "h2"
    /\ workload = "streams"
    /\ \E stream_id \in H2_StreamIds, error_code \in ResetCodes :
         \/ /\ stream_id \in streams
            /\ Len(_events) < MaxQueue
            /\ _events' = Append(_events, StreamResetSent(stream_id, error_code))
            /\ last' = [Call("submit_stream_reset", {"reset_stream"})
                        EXCEPT !.arg = stream_id, !.error_code = error_code]
         \/ \E e \in EngineErrors(H2_exceptions) :
              /\ last' = [Raised("submit_stream_reset", {"reset_stream"}, e.kind)
                          EXCEPT !.arg = stream_id, !.error_code = error_code]
              /\ UNCHANGED _events
    /\ UNCHANGED <<fixed, h3_state, _terminated, ct_appended, streams, ct_drained,
                   id_last>>

H2_next_event ==
    /\ impl = "h2"
    /\ IF _events = <<>>
       THEN /\ last' = Call("next_event", {})
            /\ UNCHANGED <<_events, ct_drained>>
       ELSE /\ _events' = Tail(_events)
            /\ ct_drained' = (ct_drained \/ IsCT(Head(_events)))
            /\ last' = [Call("next_event", {}) EXCEPT !.ret_event = <<Head(_events)>>]
    /\ UNCHANGED <<fixed, h3_state, _terminated, ct_appended, streams, id_last>>

\* HTTP2ProtocolHyperImpl(): the state after construction
H2_init ==
    /\ impl = "h2"
    /\ is_client = TRUE
    /\ _remote_address = NoMessage
    /\ workload \in {"events", "streams"}
    /\ _events = <<>>
    /\ _terminated = FALSE
    /\ last = Call("init", {})

(***************************************************************************)
(* The QUIC engine and the HTTP/3 layer, as far as the adapters see them.  *)
(***************************************************************************)
ConnIds == {"a", "b"}

Times == 0..MaxTime

\* the notifications of the HTTP/3 layer (H3Connection.handle_event's result)
H3Headers == [kind |-> "HeadersReceived", stream_id |-> 0, headers |-> Hdrs,
              stream_ended |-> FALSE]

H3Data == [kind |-> "DataReceived", stream_id |-> 0, data |-> "d",
           stream_ended |-> TRUE]

\* a QUIC ConnectionTerminated notification; h3 is what the HTTP/3 layer derives
\* from a notification
QuicTerminated(error_code, reason_phrase) ==
    [kind |-> "ConnectionTerminated", error_code |-> error_code,
     reason_phrase |-> reason_phrase, h3 |-> <<>>]

\* the close events a peer's CONNECTION_CLOSE or an idle timeout records
RemoteCloseEvents == {QuicTerminated(1, "r")}

\* the QUIC notifications of the "events" workload, each with the HTTP/3
\* notifications the HTTP/3 layer derives from it
QuicEventNative ==
    { [kind |-> "HandshakeCompleted", alpn_protocol |-> "h3", h3 |-> <<>>],
      [kind |-> "StreamReset", stream_id |-> 0, error_code |-> 1, h3 |-> <<>>],
      [kind |-> "StreamReset", stream_id |-> 0, error_code |-> 1, h3 |-> <<H3Data>>],
      [kind |-> "StreamDataReceived", stream_id |-> 0, h3 |-> <<>>],
      [kind |-> "StreamDataReceived", stream_id |-> 0, h3 |-> <<H3Headers, H3Data>>] }

\* the QUIC notifications of the "cids" workload
QuicCidNative ==
    [kind : {"ConnectionIdIssued", "ConnectionIdRetired"}, connection_id : ConnIds,
     h3 : {<<>>}]

QuicEventBatches == SeqsUpTo(QuicEventNative, MaxBatch)

QuicCidBatches == SeqsUpTo(QuicCidNative, MaxBatch)

\* the batches of notifications one receive_datagram() / handle_timer() may surface
QuicBatches ==
    IF workload = "events" THEN QuicEventBatches
    ELSE IF workload = "cids" THEN QuicCidBatches
    ELSE {<<>>}

\* the batches that leave room for the close event
QuicShortBatches == {b \in QuicEventBatches : Len(b) < MaxBatch}

\* exceptions(): the error kinds of the QUIC engine and the HTTP/3 layer
H3_exceptions == {"ProtocolError", "H3Error", "QuicConnectionError"}

\* the deadlines get_timer() may answer
Deadlines == 1..MaxTime

\* QUIC bidirectional stream ids: 4k for the client's streams, 4k + 1 for the server's
H3_StreamBase == IF is_client THEN 0 ELSE 1

\* the stream ids this endpoint opens with this engine
H3_StreamIds == {4 * k + H3_StreamBase : k \in 0..(MaxStreams - 1)}

\* get_available_stream_id(): QuicConnection.get_next_available_stream_id(), the
\* lowest bidirectional id of this endpoint that no stream has; the id is not reserved
H3_get_next_available_stream_id(opened) ==
    Min({4 * k + H3_StreamBase : k \in 0..MaxStreams} \ opened)

\* the history of the engine's connection id notifications
NoCidLog == [c \in ConnIds |-> [issued |-> FALSE, retired |-> FALSE, latest |-> "none"]]

LogCid(log, e) ==
    IF e.kind = "ConnectionIdIssued"
    THEN [log EXCEPT ![e.connection_id].issued = TRUE,
                     ![e.connection_id].latest = "issued"]
    ELSE IF e.kind = "ConnectionIdRetired"
    THEN [log EXCEPT ![e.connection_id].retired = TRUE,
                     ![e.connection_id].latest = "retired"]
    ELSE log

RECURSIVE LogCids(_, _)
LogCids(log, es) == IF es = <<>> THEN log ELSE LogCids(LogCid(log, Head(es)), Tail(es))

(***************************************************************************)
(* HTTP3ProtocolImpl and HTTP3ProtocolAioQuicImpl.                         *)
(***************************************************************************)
\* an instance exists unless its constructor raised
constructed == ~(last.op = "init" /\ last.raised # "none")

IsH3 == impl \in {"aioquic", "h3"} /\ constructed

\* frame_type = 0x1D if error_code else 0x1C
FRAME_APPLICATION_CLOSE == 29

FRAME_TRANSPORT_CLOSE == 28

\* the adapter's state as one processing pass carries it: the events appended by
\* the pass, the connection ids, the terminated flag, the error that ended the
\* pass, the notifications left in the engine's queue
Pass(ids, terminated, rest) ==
    [events |-> <<>>, ids |-> ids, terminated |-> terminated, raised |-> "none",
     rest |-> rest]

\* a variant of _map_quic_event that lets the KeyError of remove() escape
H3_map_quic_event_keyerror(st, quic_event) ==
    IF quic_event.kind = "ConnectionIdIssued"
    THEN [st EXCEPT !.ids = @ \cup {quic_event.connection_id}]
    ELSE IF quic_event.kind = "ConnectionIdRetired"
    THEN IF quic_event.connection_id \in st.ids
         THEN [st EXCEPT !.ids = @ \ {quic_event.connection_id}]
         ELSE [st EXCEPT !.raised = "KeyError"]
    ELSE IF quic_event.kind = "HandshakeCompleted"
    THEN [st EXCEPT !.events = Append(@, HandshakeCompleted(quic_event.alpn_protocol))]
    ELSE IF quic_event.kind = "ConnectionTerminated"
    THEN [st EXCEPT !.terminated = TRUE,
                    !.events = Append(@, ConnectionTerminated(quic_event.error_code,
                                                              quic_event.reason_phrase))]
    ELSE IF quic_event.kind = "StreamReset"
    THEN [st EXCEPT !.events = Append(@, StreamResetReceived(quic_event.stream_id,
                                                             quic_event.error_code))]
    ELSE st

\* _map_quic_event: the connection id bookkeeping (a KeyError of remove() is
\* swallowed), then the event the notification maps to
H3_map_quic_event(st, quic_event) ==
    IF quic_event.kind = "ConnectionIdIssued"
    THEN [st EXCEPT !.ids = @ \cup {quic_event.connection_id}]
    ELSE IF quic_event.kind = "ConnectionIdRetired"
    THEN [st EXCEPT !.ids = @ \ {quic_event.connection_id}]
    ELSE IF quic_event.kind = "HandshakeCompleted"
    THEN [st EXCEPT !.events = Append(@, HandshakeCompleted(quic_event.alpn_protocol))]
    ELSE IF quic_event.kind = "ConnectionTerminated"
    THEN [st EXCEPT !.terminated = TRUE,
                    !.events = Append(@, ConnectionTerminated(quic_event.error_code,
                                                              quic_event.reason_phrase))]
    ELSE IF quic_event.kind = "StreamReset"
    THEN [st EXCEPT !.events = Append(@, StreamResetReceived(quic_event.stream_id,
                                                             quic_event.error_code))]
    ELSE st

\* _map_h3_event: the events one HTTP/3 notification maps to
H3_map_h3_event(h3_event) ==
    IF h3_event.kind = "HeadersReceived"
    THEN <<HeadersReceived(h3_event.stream_id, h3_event.headers, h3_event.stream_ended)>>
    ELSE IF h3_event.kind = "DataReceived"
    THEN <<DataReceived(h3_event.stream_id, h3_event.data, h3_event.stream_ended)>>
    ELSE <<>>

H3_map_h3_events(h3_events) ==
    Flatten([i \in 1..Len(h3_events) |-> H3_map_h3_event(h3_events[i])])

\* a variant of the loop body that appends the HTTP/3 events first
H3_fetch_one_h3_first(st, quic_event) ==
    LET own == H3_map_quic_event([st EXCEPT !.events = <<>>], quic_event) IN
    [own EXCEPT !.events = st.events \o H3_map_h3_events(quic_event.h3) \o own.events]

\* the body of the loop of _fetch_events: the notification's own event, then the
\* events of the HTTP/3 notifications derived from it
H3_fetch_one(st, quic_event) ==
    LET own == H3_map_quic_event(st, quic_event) IN
    IF own.raised # "none" THEN own
    ELSE [own EXCEPT !.events = @ \o H3_map_h3_events(quic_event.h3)]

RECURSIVE H3_fetch_loop(_)
\* for quic_event in iter(self._quic.next_event, None)
H3_fetch_loop(st) ==
    IF st.rest = <<>> \/ st.raised # "none" THEN st
    ELSE H3_fetch_loop(H3_fetch_one([st EXCEPT !.rest = Tail(@)], Head(st.rest)))

\* HTTP3ProtocolImpl._fetch_events (self._http is not None)
H3_fetch_events(st, close_event) == H3_fetch_loop(st)

\* HTTP3ProtocolAioQuicImpl._fetch_events: the loop, then the engine's _close_event
\* is mapped again whenever it is set
AQ_fetch_events(st, close_event) ==
    LET looped == H3_fetch_loop(st) IN
    IF looped.raised = "none" /\ close_event # <<>>
    THEN H3_map_quic_event(looped, close_event[1])
    ELSE looped

fetch_events(st, close_event) ==
    IF impl = "aioquic" THEN AQ_fetch_events(st, close_event)
    ELSE H3_fetch_events(st, close_event)

\* the part of a call after the engine took the datagram or the timer and queued
\* batch: the assertion of _fetch_events, then the pass; calls are the calls that
\* run this way
H3_after_engine(calls, batch, close_event, closed) ==
    /\ Len(quic_events) + Len(batch) <= MaxBatch
    /\ quic_close_event' = close_event
    /\ quic_closed' = closed
    /\ IF ~_http
       THEN /\ quic_events' = quic_events \o batch
            /\ \E call \in calls : last' = [call EXCEPT !.raised = "AssertionError"]
            /\ UNCHANGED <<_events, _terminated, _connection_ids, ct_appended, cid_log>>
       ELSE LET queue == quic_events \o batch
                st == fetch_events(Pass(_connection_ids, _terminated, queue),
                                   close_event)
                fetched == SubSeq(queue, 1, Len(queue) - Len(st.rest))
            IN  /\ Len(_events) + Len(st.events) <= MaxQueue
                /\ _events' = _events \o st.events
                /\ _terminated' = st.terminated
                /\ _connection_ids' = st.ids
                /\ quic_events' = st.rest
                /\ ct_appended' = Count(ct_appended, CountCT(st.events))
                /\ cid_log' = LogCids(cid_log, fetched)
                /\ \E call \in calls :
                     last' = [call EXCEPT !.native = fetched, !.raised = st.raised,
                                          !.engine = @ \cup {"next_event", "handle_event"}]

\* what receive_datagram() / handle_timer() may do to the engine: surface a batch of
\* notifications, record a close event, or surface the close event (once, and
\* last: a closed connection takes nothing more)
H3_engine(calls) ==
    IF quic_closed
    THEN H3_after_engine(calls, <<>>, quic_close_event, TRUE)
    ELSE \/ \E b \in QuicBatches :
              H3_after_engine(calls, b, quic_close_event, FALSE)
         \/ /\ workload = "events"
            /\ quic_close_event = <<>>
            /\ \E ce \in RemoteCloseEvents :
                 H3_after_engine(calls, <<>>, <<ce>>, FALSE)
         \/ /\ workload = "events"
            /\ \E b \in QuicShortBatches :
                 \E ce \in (IF quic_close_event = <<>> THEN RemoteCloseEvents
                            ELSE {quic_close_event[1]}) :
                   H3_after_engine(calls, Append(b, ce), <<ce>>, TRUE)

H3_bytes_received ==
    /\ IsH3
    /\ workload \in {"events", "cids"}
    /\ \/ H3_engine({Call("bytes_received", {"receive_datagram"})})
       \/ \E e \in EngineErrors(H3_exceptions) :
            /\ last' = Raised("bytes_received", {"receive_datagram"}, e.kind)
            /\ UNCHANGED <<_events, _terminated, _connection_ids, quic_events,
                           quic_close_event, quic_closed, ct_appended, cid_log>>
    /\ UNCHANGED <<fixed, _http, streams, ct_drained, id_last>>

\* a variant of the comparison that waits until the deadline is behind
TimerExpired_strictly(now, timer) == timer # None /\ now > timer

\* timer is not None and now >= timer
TimerExpired(now, timer) == timer # None /\ now >= timer

\* clock(now): the engine's deadline is whatever get_timer() answers at the call;
\* handle_timer and the pass run for the calls whose timer has expired
H3_clock ==
    /\ IsH3
    /\ workload \in {"events", "cids"}
    /\ \/ H3_engine({[Call("clock", {"get_timer", "handle_timer"})
                       EXCEPT !.arg = p[1], !.timer = p[2]] :
                      p \in {q \in Times \X ({None} \cup Deadlines) :
                               TimerExpired(q[1], q[2])}})
       \/ \E now \in Times, timer \in {None} \cup Deadlines :
            /\ ~TimerExpired(now, timer)
            /\ last' = [Call("clock", {"get_timer"}) EXCEPT !.arg = now,
                                                              !.timer = timer]
            /\ UNCHANGED <<_events, _terminated, _connection_ids, quic_events,
                           quic_close_event, quic_closed, ct_appended, cid_log>>
    /\ UNCHANGED <<fixed, _http, streams, ct_drained, id_last>>

\* connection_lost(): no guard on self._terminated
H3_connection_lost ==
    /\ IsH3
    /\ Len(_events) < MaxQueue
    /\ _terminated' = TRUE
    /\ _events' = Append(_events, ConnectionTerminated(0, NoMessage))
    /\ ct_appended' = Count(ct_appended, 1)
    /\ last' = Call("connection_lost", {})
    /\ UNCHANGED <<fixed, _connection_ids, _http, streams, quic_events,
                   quic_close_event, quic_closed, ct_drained, cid_log, id_last>>

\* a variant of bytes_to_send that connects on every call
H3_bytes_to_send_calls_always(http) == {"connect", "H3Connection", "datagrams_to_send"}

\* the engine calls of bytes_to_send: if self._http is None, connect() and
\* H3Connection(); then datagrams_to_send()
H3_bytes_to_send_calls(http) ==
    IF http THEN {"datagrams_to_send"}
    ELSE {"connect", "H3Connection", "datagrams_to_send"}

\* bytes_to_send(): the first call connects and creates the HTTP/3 layer
H3_bytes_to_send ==
    /\ IsH3
    /\ _http' = TRUE
    /\ last' = Call("bytes_to_send", H3_bytes_to_send_calls(_http))
    /\ UNCHANGED <<fixed, _events, _terminated, _connection_ids, streams, quic_events,
                   quic_close_event, quic_closed, ct_appended, ct_drained, cid_log,
                   id_last>>

H3_get_available_stream_id ==
    /\ IsH3
    /\ workload = "streams"
    /\ LET id == H3_get_next_available_stream_id(streams) IN
         /\ id_last' = id
         /\ last' = [Call("get_available_stream_id", {"get_next_available_stream_id"})
                     EXCEPT !.ret_id = id, !.prev_id = id_last]
    /\ UNCHANGED <<fixed, _events, _terminated, _connection_ids, _http, streams,
                   quic_events, quic_close_event, quic_closed, ct_appended, ct_drained,
                   cid_log>>

\* a variant that always closes with the transport subtype
H3_close_frame_type_transport(error_code) == FRAME_TRANSPORT_CLOSE

\* frame_type=0x1D if error_code else 0x1C
H3_close_frame_type(error_code) ==
    IF error_code # 0 THEN FRAME_APPLICATION_CLOSE ELSE FRAME_TRANSPORT_CLOSE

\* submit_close(error_code = 0): QuicConnection.close() records the close event
\* unless one is recorded already
H3_submit_close ==
    /\ IsH3
    /\ workload = "events"
    /\ \E error_code \in ErrorCodes :
         LET frame_type == H3_close_frame_type(error_code) IN
         /\ quic_close_event' = IF quic_close_event = <<>> /\ ~quic_closed
                                THEN <<QuicTerminated(error_code, "")>>
                                ELSE quic_close_event
         /\ last' = [Call("submit_close", {"close"}) EXCEPT !.arg = error_code,
                                                             !.frame_type = frame_type]
    /\ UNCHANGED <<fixed, _events, _terminated, _connection_ids, _http, streams,
                   quic_events, quic_closed, ct_appended, ct_drained, cid_log, id_last>>

\* list(headers): a new list of the same items in the same order
H3_list(headers) == [i \in 1..Len(headers) |-> headers[i]]

\* submit_headers: assert self._http is not None, then H3Connection.send_headers,
\* which opens the stream or is rejected with one of the engine's errors
H3_submit_headers ==
    /\ IsH3
    /\ workload = "streams"
    /\ \E stream_id \in H3_StreamIds :
         IF ~_http
         THEN /\ last' = Raised("submit_headers", {}, "AssertionError")
              /\ UNCHANGED streams
         ELSE \/ /\ streams' = streams \cup {stream_id}
                 /\ last' = [Call("submit_headers", {"send_headers"})
                             EXCEPT !.headers = Hdrs, !.sent_headers = H3_list(Hdrs)]
              \/ \E e \in EngineErrors(H3_exceptions) :
                   /\ last' = [Raised("submit_headers", {"send_headers"}, e.kind)
                               EXCEPT !.headers = Hdrs, !.sent_headers = H3_list(Hdrs)]
                   /\ UNCHANGED streams
    /\ UNCHANGED <<fixed, _events, _terminated, _connection_ids, _http, quic_events,
                   quic_close_event, quic_closed, ct_appended, ct_drained, cid_log,
                   id_last>>

H3_submit_data ==
    /\ IsH3
    /\ workload = "streams"
    /\ \E stream_id \in H3_StreamIds :
         IF ~_http
         THEN last' = Raised("submit_data", {}, "AssertionError")
         ELSE \/ /\ stream_id \in streams
                 /\ last' = Call("submit_data", {"send_data"})
              \/ \E e \in EngineErrors(H3_exceptions) :
                   last' = Raised("submit_data", {"send_data"}, e.kind)
    /\ UNCHANGED <<fixed, _events, _terminated, _connection_ids, _http, streams,
                   quic_events, quic_close_event, quic_closed, ct_appended, ct_drained,
                   cid_log, id_last>>

\* submit_stream_reset: QuicConnection.reset_stream gets or creates the stream; no
\* event is appended
H3_submit_stream_reset ==
    /\ IsH3
    /\ workload = "streams"
    /\ \E stream_id \in H3_StreamIds, error_code \in ResetCodes :
         \/ /\ streams' = streams \cup {stream_id}
            /\ last' = [Call("submit_stream_reset", {"reset_stream"})
                        EXCEPT !.arg = stream_id, !.error_code = error_code]
         \/ \E e \in EngineErrors(H3_exceptions) :
              /\ last' = [Raised("submit_stream_reset", {"reset_stream"}, e.kind)
                          EXCEPT !.arg = stream_id, !.error_code = error_code]
              /\ UNCHANGED streams
    /\ UNCHANGED <<fixed, _events, _terminated, _connection_ids, _http, quic_events,
                   quic_close_event, quic_closed, ct_appended, ct_drained, cid_log,
                   id_last>>

H3_next_event ==
    /\ IsH3
    /\ IF _events = <<>>
       THEN /\ last' = Call("next_event", {})
            /\ UNCHANGED <<_events, ct_drained>>
       ELSE /\ _events' = Tail(_events)
            /\ ct_drained' = (ct_drained \/ IsCT(Head(_events)))
            /\ last' = [Call("next_event", {}) EXCEPT !.ret_event = <<Head(_events)>>]
    /\ UNCHANGED <<fixed, _terminated, _connection_ids, _http, streams, quic_events,
                   quic_close_event, quic_closed, ct_appended, cid_log, id_last>>

RemoteAddresses == {NoMessage, "addr"}

\* HTTP3ProtocolAioQuicImpl(remote_address, server_name, tls_config): a client
AQ_init ==
    /\ impl = "aioquic"
    /\ is_client = TRUE
    /\ _remote_address = "addr"
    /\ workload \in Workloads
    /\ _events = <<>>
    /\ _terminated = FALSE
    /\ last = Call("init", {})

\* a variant of the constructor's check that accepts every configuration
H3_init_raises_never(client, remote_address) == FALSE

\* if configuration.is_client and remote_address is None: raise ValueError
H3_init_raises(client, remote_address) == client /\ remote_address = NoMessage

\* HTTP3ProtocolImpl(configuration, remote_address): either role, with or without a
\* remote address; a constructor that raises leaves no instance to call
H3_init ==
    /\ impl = "h3"
    /\ is_client \in BOOLEAN
    /\ _remote_address \in RemoteAddresses
    /\ workload \in (IF is_client THEN Workloads ELSE {"cids", "streams"})
    /\ _events = <<>>
    /\ _terminated = FALSE
    /\ last = IF H3_init_raises(is_client, _remote_address)
              THEN Raised("init", {}, "ValueError")
              ELSE Call("init", {})
(***************************************************************************)
(* Two adapter instances side by side.  Python objects are references: the *)
(* deques and sets live in a heap, an instance holds the index of its own. *)
(***************************************************************************)
Instances == {"A", "B"}

TwoClasses == {"h2", "aioquic"}

\* the notifications the engines of the two instances surface, one per call
TwoH2Native == {e \in H2Native : e.kind = "SettingsAcknowledged"}

TwoQuicNative ==
    {e \in QuicEventNative : e.kind = "HandshakeCompleted"}
        \cup {e \in QuicCidNative : e.connection_id = "a"}

\* a variant of the constructors that takes one class-level object for every instance
Two_alloc_shared(heap) == 1

\* deque() / set() in __init__: a new object each time the constructor runs
Two_alloc(heap) == Len(heap) + 1

\* the heap with value stored in the object ref
Two_store(heap, ref, value) ==
    IF ref > Len(heap) THEN Append(heap, value) ELSE [heap EXCEPT ![ref] = value]

\* one constructor: the deque of every class, the id set of the HTTP/3 class only
\* (None stands for the attribute the HTTP/2 class has not)
Two_new(world, cls) ==
    LET d == Two_alloc(world.deques)
        s == IF cls = "h2" THEN None ELSE Two_alloc(world.sets)
    IN  [deques |-> Two_store(world.deques, d, <<>>),
         sets |-> IF cls = "h2" THEN world.sets ELSE Two_store(world.sets, s, {}),
         made |-> Append(world.made,
                         [impl |-> cls, _events |-> d, _connection_ids |-> s,
                          _terminated |-> FALSE, _http |-> FALSE])]

\* the two constructors run one after the other: A of class a, then B of class b
Two_construct(a, b) ==
    LET world == Two_new(Two_new([deques |-> <<>>, sets |-> <<>>, made |-> <<>>], a), b)
    IN  [deques |-> world.deques,
         sets |-> world.sets,
         obj |-> [i \in Instances |-> world.made[IF i = "A" THEN 1 ELSE 2]],
         via |-> "none",
         op |-> "init"]

\* the pair of instances of the runs that use one adapter only
TwoIdle == Two_construct("h2", "aioquic")

\* what instance i is, seen through its own attributes
TwoView(world, i) ==
    [events |-> world.deques[world.obj[i]._events],
     ids |-> IF world.obj[i]._connection_ids = None THEN {}
             ELSE world.sets[world.obj[i]._connection_ids],
     terminated |-> world.obj[i]._terminated]

\* the world after a call op on instance i that left it with view v
TwoAfter(i, op, v) ==
    [two EXCEPT !.deques[two.obj[i]._events] = v.events,
                !.sets = IF two.obj[i]._connection_ids = None THEN @
                         ELSE [@ EXCEPT ![two.obj[i]._connection_ids] = v.ids],
                !.obj[i]._terminated = v.terminated,
                !.via = i,
                !.op = op]

\* the variables of the single adapter, which the calls on A and B leave alone
one == <<impl, is_client, _remote_address, workload, _events, _terminated,
         _connection_ids, _http, streams, quic_events, quic_close_event, quic_closed,
         ct_appended, ct_drained, cid_log, id_last, last>>

\* _connection_terminated of the HTTP/2 adapter, on a view
Two_h2_terminated(v, error_code, message) ==
    IF v.terminated THEN v
    ELSE [v EXCEPT !.terminated = TRUE,
                   !.events = Append(@, ConnectionTerminated(error_code, message))]

\* connection_lost(): guarded by the flag in the HTTP/2 adapter only
Two_connection_lost ==
    /\ \E i \in Instances :
         LET v == TwoView(two, i) IN
         /\ Len(v.events) < MaxHeld
         /\ two' = TwoAfter(i, "connection_lost",
                      IF two.obj[i].impl = "h2"
                      THEN Two_h2_terminated(v, 0, NoMessage)
                      ELSE [v EXCEPT !.terminated = TRUE,
                                     !.events = Append(@, ConnectionTerminated(0, NoMessage))])
    /\ UNCHANGED <<one, tls>>

\* bytes_received(data): the engine of instance i takes the data and surfaces at most
\* one notification, or fails
Two_bytes_received ==
    /\ \E i \in Instances :
         LET v == TwoView(two, i) IN
         /\ Len(v.events) < MaxHeld
         /\ IF two.obj[i].impl = "h2"
            THEN \/ \E h2_events \in SeqsUpTo(TwoH2Native, 1) :
                      two' = TwoAfter(i, "bytes_received",
                                 [v EXCEPT !.events = @ \o H2_map_events(h2_events)])
                 \/ \E e \in EngineErrors(H2_exceptions) :
                      two' = TwoAfter(i, "bytes_received",
                                 IF H2_isProtocolError(e.kind)
                                 THEN Two_h2_terminated(v, e.error_code, e.message)
                                 ELSE v)
            ELSE \/ \E batch \in SeqsUpTo(TwoQuicNative, 1) :
                      two' = TwoAfter(i, "bytes_received",
                                 IF ~two.obj[i]._http THEN v
                                 ELSE LET st == AQ_fetch_events(
                                                    Pass(v.ids, v.terminated, batch), <<>>)
                                      IN  [events |-> v.events \o st.events,
                                           ids |-> st.ids,
                                           terminated |-> st.terminated])
                 \/ \E e \in EngineErrors(H3_exceptions) :
                      two' = TwoAfter(i, "bytes_received", v)
    /\ UNCHANGED <<one, tls>>

\* bytes_to_send(): the first call of an HTTP/3 instance creates its HTTP/3 layer
Two_bytes_to_send ==
    /\ \E i \in Instances :
         two' = [TwoAfter(i, "bytes_to_send", TwoView(two, i))
                 EXCEPT !.obj[i]._http = @ \/ two.obj[i].impl = "aioquic"]
    /\ UNCHANGED <<one, tls>>

\* next_event(): popleft() of the instance's own deque
Two_next_event ==
    /\ \E i \in Instances :
         LET v == TwoView(two, i) IN
         /\ v.events # <<>>
         /\ two' = TwoAfter(i, "next_event", [v EXCEPT !.events = Tail(@)])
    /\ UNCHANGED <<one, tls>>

(***************************************************************************)
(* QuicTLSConfig and clone().  The session ticket is an object of the       *)
(* caller's: a configuration holds a reference to it.                       *)
(***************************************************************************)
Configs == {"original", "clone"}

\* QuicTLSConfig(): the defaults of the dataclass fields
QuicTLSConfig ==
    [insecure |-> FALSE, cafile |-> NoMessage, capath |-> NoMessage,
     cadata |-> NoMessage, certfile |-> NoMessage, keyfile |-> NoMessage,
     keypassword |-> NoMessage, session_ticket |-> None]

\* clone(): dataclasses.replace(self) builds a new QuicTLSConfig whose fields are
\* initialised with the values of self's fields; a field that holds a reference
\* holds the same reference in the new object
QuicTLSConfig_clone(self) ==
    [insecure |-> self.insecure, cafile |-> self.cafile, capath |-> self.capath,
     cadata |-> self.cadata, certfile |-> self.certfile, keyfile |-> self.keyfile,
     keypassword |-> self.keypassword, session_ticket |-> self.session_ticket]

\* the caller's objects before any clone: one configuration, one ticket object
TlsIdle ==
    [held |-> [c \in Configs |-> IF c = "original" THEN <<QuicTLSConfig>> ELSE <<>>],
     tickets |-> <<[age |-> 0]>>,
     via |-> "none",
     op |-> "init"]

\* what a reader sees through config c: its fields, the ticket's content for the
\* reference
TlsObserved(world, c) ==
    [fields |-> [world.held[c][1] EXCEPT !.session_ticket = None],
     ticket |-> IF world.held[c][1].session_ticket = None THEN <<>>
                ELSE <<world.tickets[world.held[c][1].session_ticket]>>]

\* c = original.clone()
TLS_clone ==
    /\ tls.held["clone"] = <<>>
    /\ tls' = [tls EXCEPT !.held["clone"] = <<QuicTLSConfig_clone(tls.held["original"][1])>>,
                          !.via = "original",
                          !.op = "clone"]
    /\ UNCHANGED <<one, two>>

\* config.insecure = ..., config.cafile = ..., config.session_ticket = ...
TLS_assign ==
    /\ \E c \in Configs :
         /\ tls.held[c] # <<>>
         /\ \/ \E value \in BOOLEAN :
                 tls' = [tls EXCEPT !.held[c][1].insecure = value,
                                    !.via = c, !.op = "assign"]
            \/ \E value \in {NoMessage, "ca"} :
                 tls' = [tls EXCEPT !.held[c][1].cafile = value,
                                    !.via = c, !.op = "assign"]
            \/ \E value \in {None} \cup (1..Len(tls.tickets)) :
                 tls' = [tls EXCEPT !.held[c][1].session_ticket = value,
                                    !.via = c, !.op = "assign"]
    /\ UNCHANGED <<one, two>>

\* config.session_ticket.<attribute> = ...: the object the field holds is changed
TLS_mutate ==
    /\ \E c \in Configs :
         /\ tls.held[c] # <<>>
         /\ tls.held[c][1].session_ticket # None
         /\ \E age \in 0..1 :
              tls' = [tls EXCEPT !.tickets[tls.held[c][1].session_ticket].age = age,
                                 !.via = c, !.op = "mutate"]
    /\ UNCHANGED <<one, two>>

(***************************************************************************)
(* The specification.                                                      *)
(***************************************************************************)
\* what the three constructors share: empty id set, no HTTP/3 layer, a fresh engine
FreshAdapter ==
    /\ _connection_ids = {}
    /\ _http = FALSE
    /\ streams = {}
    /\ quic_events = <<>>
    /\ quic_close_event = <<>>
    /\ quic_closed = FALSE
    /\ ct_appended = 0
    /\ ct_drained = FALSE
    /\ cid_log = NoCidLog
    /\ id_last = None

\* the state after one adapter was constructed; the objects of the two-instance
\* and of the configuration runs are at rest
Fresh ==
    /\ two = TwoIdle
    /\ tls = TlsIdle
    /\ FreshAdapter

Init == (H2_init \/ AQ_init \/ H3_init) /\ Fresh

Next ==
    \/ H2_connection_lost
    \/ H2_eof_received
    \/ H2_bytes_received
    \/ H2_bytes_to_send
    \/ H2_get_available_stream_id
    \/ H2_submit_close
    \/ H2_submit_headers
    \/ H2_submit_data
    \/ H2_submit_stream_reset
    \/ H2_next_event
    \/ H3_bytes_received
    \/ H3_clock
    \/ H3_connection_lost
    \/ H3_bytes_to_send
    \/ H3_get_available_stream_id
    \/ H3_submit_close
    \/ H3_submit_headers
    \/ H3_submit_data
    \/ H3_submit_stream_reset
    \/ H3_next_event

Spec == Init /\ [][Next]_vars

(***************************************************************************)
(* The adapters and the families of inputs, one at a time.                 *)
(***************************************************************************)
\* HTTP2ProtocolHyperImpl alone
InitH2 == H2_init /\ Fresh

NextH2 ==
    \/ H2_connection_lost
    \/ H2_eof_received
    \/ H2_bytes_received
    \/ H2_bytes_to_send
    \/ H2_get_available_stream_id
    \/ H2_submit_close
    \/ H2_submit_headers
    \/ H2_submit_data
    \/ H2_submit_stream_reset
    \/ H2_next_event

SpecH2 == InitH2 /\ [][NextH2]_vars

\* the HTTP/3 adapters while the engine issues and retires connection ids: the
\* calls that reach _fetch_events, and the one that creates the HTTP/3 layer
InitCids == (AQ_init \/ H3_init) /\ workload = "cids" /\ Fresh

NextCids ==
    \/ H3_bytes_received
    \/ H3_clock
    \/ H3_bytes_to_send

SpecCids == InitCids /\ [][NextCids]_vars

\* the HTTP/3 adapters while the engine surfaces stream and connection
\* notifications: the calls that reach _fetch_events, the one that creates the
\* HTTP/3 layer, and the draining of the deque
InitPass == (AQ_init \/ H3_init) /\ workload = "events" /\ Fresh

NextPass ==
    \/ H3_bytes_received
    \/ H3_clock
    \/ H3_bytes_to_send
    \/ H3_next_event

SpecPass == InitPass /\ [][NextPass]_vars

\* every adapter while the caller allocates stream ids and submits on streams
InitIds == (H2_init \/ AQ_init \/ H3_init) /\ workload = "streams" /\ Fresh

NextIds ==
    \/ H2_connection_lost
    \/ H2_eof_received
    \/ H2_bytes_to_send
    \/ H2_get_available_stream_id
    \/ H2_submit_headers
    \/ H2_submit_data
    \/ H2_submit_stream_reset
    \/ H2_next_event
    \/ H3_connection_lost
    \/ H3_bytes_to_send
    \/ H3_get_available_stream_id
    \/ H3_submit_headers
    \/ H3_submit_data
    \/ H3_submit_stream_reset
    \/ H3_next_event

SpecIds == InitIds /\ [][NextIds]_vars


\* the HTTP/3 adapters closing: submit_close among the calls that need no datagram
InitClose == (AQ_init \/ H3_init) /\ workload = "events" /\ Fresh

NextClose ==
    \/ H3_submit_close
    \/ H3_connection_lost
    \/ H3_bytes_to_send
    \/ H3_next_event

SpecClose == InitClose /\ [][NextClose]_vars

\* the calls of the three adapters that carry header lists, in either direction
InitHeaders == Init /\ workload \in {"events", "streams"}

NextHeaders ==
    \/ H2_bytes_received
    \/ H2_submit_headers
    \/ H2_next_event
    \/ H3_bytes_received
    \/ H3_bytes_to_send
    \/ H3_submit_headers
    \/ H3_next_event

SpecHeaders == InitHeaders /\ [][NextHeaders]_vars

\* two instances of any two classes, called in any interleaving
InitTwo ==
    /\ H2_init
    /\ workload = "events"
    /\ FreshAdapter
    /\ tls = TlsIdle
    /\ \E a \in TwoClasses, b \in TwoClasses : two = Two_construct(a, b)

NextTwo ==
    \/ Two_connection_lost
    \/ Two_bytes_received
    \/ Two_bytes_to_send
    \/ Two_next_event

SpecTwo == InitTwo /\ [][NextTwo]_vars

\* a QuicTLSConfig and its clone in the hands of their caller
InitTls == H2_init /\ workload = "events" /\ Fresh

NextTls ==
    \/ TLS_clone
    \/ TLS_assign
    \/ TLS_mutate

SpecTls == InitTls /\ [][NextTls]_vars

\* the three adapters under the calls that do not feed the engine: the triggers of
\* termination, next_event, bytes_to_send, get_available_stream_id, every submit_*
InitFlag == Init

NextFlag ==
    \/ H2_connection_lost
    \/ H2_eof_received
    \/ H2_bytes_to_send
    \/ H2_get_available_stream_id
    \/ H2_submit_close
    \/ H2_submit_headers
    \/ H2_submit_data
    \/ H2_submit_stream_reset
    \/ H2_next_event
    \/ H3_connection_lost
    \/ H3_bytes_to_send
    \/ H3_get_available_stream_id
    \/ H3_submit_close
    \/ H3_submit_headers
    \/ H3_submit_data
    \/ H3_submit_stream_reset
    \/ H3_next_event

SpecFlag == InitFlag /\ [][NextFlag]_vars

\* the three adapters terminating: the triggers, the engine's input, next_event
InitTerm == Init /\ workload = "events"

NextTerm ==
    \/ H2_connection_lost
    \/ H2_eof_received
    \/ H2_bytes_received
    \/ H2_next_event
    \/ H3_connection_lost
    \/ H3_bytes_received
    \/ H3_bytes_to_send
    \/ H3_next_event

SpecTerm == InitTerm /\ [][NextTerm]_vars

(***************************************************************************)
(* What the claims read off one step.                                      *)
(***************************************************************************)
\* the events a step appended to the deque (a step that is not next_event)
Appended == SubSeq(_events', Len(_events) + 1, Len(_events'))

\* the step kept the deque's content and appended at its end
OnlyAppended ==
    /\ Len(_events') >= Len(_events)
    /\ SubSeq(_events', 1, Len(_events)) = _events

IsSubmit(op) ==
    op \in {"submit_headers", "submit_data", "submit_stream_reset", "submit_close"}

\* the call is a termination trigger of the HTTP/2 adapter
IsTrigger(call) ==
    \/ call.op \in {"connection_lost", "eof_received"}
    \/ call.op = "bytes_received" /\ call.caught = "ProtocolError"

\* the call is a processing pass of an HTTP/3 adapter that ran to its end
IsPass(call) ==
    /\ call.op \in {"bytes_received", "clock"}
    /\ "next_event" \in call.engine
    /\ call.raised = "none"

IsNativeData(e) == e.kind = "DataReceived"

IsDataReceived(e) == e.type = "DataReceived"

IsHandshakeCompleted(e) == e.type = "HandshakeCompleted"

IsStreamResetSent(e) == e.type = "StreamResetSent"

IsNativeGoaway(e) == e.kind = "ConnectionTerminated"

IsGoawayReceived(e) == e.type = "GoawayReceived"

\* the connection ids the engine has issued, has retired, has issued last
IssuedIds == {c \in ConnIds : cid_log[c].issued}

RetiredIds == {c \in ConnIds : cid_log[c].retired}

LatestIssuedIds == {c \in ConnIds : cid_log[c].latest = "issued"}

\* the event a QUIC notification stands for by itself, as the event model names it
OwnEvent(q) ==
    IF q.kind = "HandshakeCompleted"
    THEN <<[type |-> "HandshakeCompleted", alpn_protocol |-> q.alpn_protocol]>>
    ELSE IF q.kind = "ConnectionTerminated"
    THEN <<[type |-> "ConnectionTerminated", error_code |-> q.error_code,
            message |-> q.reason_phrase]>>
    ELSE IF q.kind = "StreamReset"
    THEN <<[type |-> "StreamResetReceived", stream_id |-> q.stream_id,
            error_code |-> q.error_code]>>
    ELSE <<>>

\* the event an HTTP/3 notification stands for
DerivedEvent(h) ==
    IF h.kind = "HeadersReceived"
    THEN [type |-> "HeadersReceived", stream_id |-> h.stream_id,
          headers |-> h.headers, end_stream |-> h.stream_ended]
    ELSE [type |-> "DataReceived", stream_id |-> h.stream_id, data |-> h.data,
          end_stream |-> h.stream_ended]

\* one QUIC notification's events: its own, then those of its HTTP/3 notifications
NotificationEvents(q) ==
    OwnEvent(q) \o [i \in 1..Len(q.h3) |-> DerivedEvent(q.h3[i])]

\* the events of a list of QUIC notifications, notification by notification
PassEvents(native) ==
    Flatten([i \in 1..Len(native) |-> NotificationEvents(native[i])])

IsHeadersReceived(e) == e.type = "HeadersReceived"

IsNativeHeaders(e) ==
    e.kind \in {"RequestReceived", "ResponseReceived", "TrailersReceived",
                "HeadersReceived"}

\* the header lists of the native notifications an engine surfaced in one call: the
\* h2 events themselves, or the HTTP/3 notifications derived from the QUIC ones
NativeHeaderLists(native) ==
    LET flat == IF impl = "h2" THEN native
                ELSE Flatten([i \in 1..Len(native) |-> native[i].h3])
        with == SelectSeq(flat, IsNativeHeaders)
    IN  [i \in 1..Len(with) |-> with[i].headers]

\* the header lists of the HeadersReceived events among a list of events
EventHeaderLists(events) ==
    LET with == SelectSeq(events, IsHeadersReceived)
    IN  [i \in 1..Len(with) |-> with[i].headers]

(***************************************************************************)
(* The claims.                                                             *)
(***************************************************************************)
\* C1: for every adapter, once a ConnectionTerminated event has been drained with
\* next_event(), has_expired() is true and no later bytes_received or clock call
\* adds an event to the queue.
C1_NoEventAfterTerminatedDrained ==
    [][ct_drained /\ last'.op \in {"bytes_received", "clock"}
       => has_expired /\ has_expired' /\ _events' = _events]_vars

\* C2: for the HTTP/2 adapter, over any sequence of calls exactly one
\* ConnectionTerminated event is appended by the termination triggers
\* (connection_lost, eof_received, a ProtocolError inside bytes_received): the first
\* trigger sets the terminated flag and appends the event, every later trigger
\* leaves the queue and the flag unchanged.
C2_TerminatedExactlyOnce ==
    [][impl = "h2" =>
         /\ ct_appended' <= 1
         /\ IsTrigger(last') =>
              /\ _terminated'
              /\ ct_appended' = 1
              /\ IF _terminated
                 THEN _events' = _events
                 ELSE /\ Len(_events') = Len(_events) + 1
                      /\ OnlyAppended
                      /\ IsCT(_events'[Len(_events')])]_vars

\* C2's case: a termination trigger came after the ConnectionTerminated event of an
\* earlier trigger had been drained, and nothing was appended for it
C2_SecondTrigger ==
    /\ impl = "h2"
    /\ last.op = "eof_received"
    /\ ct_drained
    /\ ct_appended = 1
    /\ _events = <<>>
    /\ _terminated

\* C3: for the HTTP/3 adapters, over any sequence of connection_lost, bytes_received
\* and clock calls at most one ConnectionTerminated event is ever appended.
C3_AtMostOneTerminated == IsH3 => ct_appended <= 1

\* C4: for every adapter, once a ConnectionTerminated event has been produced, a
\* submit operation raises nothing, calls nothing of the engine and appends no
\* event.
C4_SubmitAfterTerminatedIsNoOp ==
    [][ct_appended > 0 /\ IsSubmit(last'.op)
       => last'.raised = "none" /\ last'.engine = {} /\ _events' = _events]_vars

\* C5: for the HTTP/2 adapter, the native connection-terminated notifications (GOAWAY)
\* of one bytes_received call yield one GoawayReceived(last_stream_id, error_code)
\* event each and no ConnectionTerminated event, and leave the terminated flag as
\* it was: an adapter that was available and not expired still is.
C5_GoawayIsNotTermination ==
    [][impl = "h2" /\ last'.op = "bytes_received"
       /\ Len(SelectSeq(last'.native, IsNativeGoaway)) > 0
       => LET sent == SelectSeq(last'.native, IsNativeGoaway)
              got == SelectSeq(Appended, IsGoawayReceived)
          IN  /\ OnlyAppended
              /\ Len(got) = Len(sent)
              /\ \A k \in 1..Len(sent) :
                   got[k] = [type |-> "GoawayReceived",
                             last_stream_id |-> sent[k].last_stream_id,
                             error_code |-> sent[k].error_code]
              /\ CountCT(Appended) = 0
              /\ _terminated' = _terminated
              /\ ~_terminated => (is_available' /\ ~has_expired')]_vars

\* C5's case: a second GOAWAY was delivered, with the GoawayReceived event of an
\* earlier one still queued, and the adapter is still available
C5_GoawayTwice ==
    /\ impl = "h2"
    /\ last.op = "bytes_received"
    /\ Len(SelectSeq(last.native, IsNativeGoaway)) > 0
    /\ Len(SelectSeq(_events, IsGoawayReceived)) > Len(SelectSeq(last.native, IsNativeGoaway))
    /\ is_available
    /\ ~has_expired

\* C6: for every adapter, an error of one of the kinds exceptions() names, raised by
\* the engine inside bytes_received, is not raised to the caller: the call returns,
\* and the adapter is terminated.
C6_EngineErrorNeverPropagates ==
    last.op = "bytes_received"
    => /\ last.raised \notin (H2_exceptions \cup H3_exceptions)
       /\ last.caught # "none" => _terminated

\* C7 as stated: for the HTTP/3 adapters, after any sequence of ConnectionIdIssued and
\* ConnectionIdRetired notifications connection_ids is the set of the ids issued
\* minus the set of the ids retired.
C7_IssuedMinusRetired == IsH3 => _connection_ids = IssuedIds \ RetiredIds

\* C7, amended: for the HTTP/3 adapters, after any sequence of ConnectionIdIssued and
\* ConnectionIdRetired notifications connection_ids is the set of the ids whose
\* latest notification is ConnectionIdIssued (so it holds only issued ids, and it
\* is issued minus retired as long as no id is issued after it was retired or
\* retired before it was issued); a retire notification for an id not in the set
\* raises nothing and leaves the set unchanged.
C7_LatestNotificationDecides ==
    IsH3 =>
      /\ _connection_ids = LatestIssuedIds
      /\ _connection_ids \subseteq IssuedIds
      /\ last.raised # "KeyError"
      /\ (\A c \in ConnIds : ~(cid_log[c].issued /\ cid_log[c].retired
                               /\ cid_log[c].latest = "issued"))
         => _connection_ids = IssuedIds \ RetiredIds

\* C7's case: an id was retired, by a notification that found it absent or present,
\* and issued afterwards, and the pass that fetched a retire notification returned
C7_IssuedAfterRetired ==
    /\ IsH3
    /\ \E c \in ConnIds : /\ cid_log[c].retired
                          /\ cid_log[c].latest = "issued"
                          /\ c \in _connection_ids
    /\ \E i \in 1..Len(last.native) :
         /\ last.native[i].kind = "ConnectionIdRetired"
         /\ cid_log[last.native[i].connection_id].issued = FALSE
    /\ last.raised = "none"

C9_OrderOfNotifications ==
    [][/\ last'.op = "next_event" /\ _events # <<>>
          => last'.ret_event = <<Head(_events)>> /\ _events' = Tail(_events)
       /\ last'.op \in {"bytes_received", "clock"}
          /\ last'.raised = "none" /\ last'.caught = "none"
          => /\ OnlyAppended
             /\ Appended = IF impl = "h2" THEN H2_map_events(last'.native)
                           ELSE PassEvents(last'.native)
             /\ impl = "h2" => \A i \in 1..Len(last'.native) :
                                 Len(H2_map_event(last'.native[i])) <= 1]_vars

\* C10: for the HTTP/3 adapters, one processing pass fetches every notification of
\* the QUIC queue, in the queue's order, and appends per notification first the
\* event of the notification itself, then the events of the HTTP/3 notifications
\* derived from it, before any event of the next notification.
C10_PassDrainsInOrder ==
    [][IsH3 /\ IsPass(last')
       => LET expected == PassEvents(last'.native) IN
          /\ quic_events' = <<>>
          /\ Len(last'.native) >= Len(quic_events)
          /\ SubSeq(last'.native, 1, Len(quic_events)) = quic_events
          /\ OnlyAppended
          /\ Len(Appended) >= Len(expected)
          /\ SubSeq(Appended, 1, Len(expected)) = expected
          /\ impl = "h3" => Appended = expected]_vars

\* C10's case: a pass fetched two notifications, the first with an event of its own
\* and a derived one, the second with an event too, and all three are queued
C10_TwoNotificationsThreeEvents ==
    /\ IsH3
    /\ IsPass(last)
    /\ Len(last.native) = 2
    /\ OwnEvent(last.native[1]) # <<>>
    /\ last.native[1].h3 # <<>>
    /\ NotificationEvents(last.native[2]) # <<>>
    /\ _events = PassEvents(last.native)
    /\ Len(_events) = 3

\* C11: for the HTTP/2 adapter, every native data-received notification a
\* bytes_received call surfaces is acknowledged to the engine, with its
\* flow-controlled length and its stream id, within that call (so before any later
\* bytes_to_send): the acknowledgements of a call are those of the DataReceived
\* events it enqueues, one each and in order, and no other call acknowledges.
C11_DataAcknowledgedInCall ==
    [][impl = "h2" =>
         IF last'.op = "bytes_received"
         THEN LET sent == SelectSeq(last'.native, IsNativeData)
                  got == SelectSeq(Appended, IsDataReceived)
              IN  /\ OnlyAppended
                  /\ Len(last'.acked) = Len(sent)
                  /\ Len(got) = Len(sent)
                  /\ \A k \in 1..Len(sent) :
                       /\ last'.acked[k] = <<sent[k].flow_controlled_length,
                                             sent[k].stream_id>>
                       /\ got[k].stream_id = sent[k].stream_id
                  /\ (Len(sent) > 0) = ("acknowledge_received_data" \in last'.engine)
         ELSE last'.acked = <<>>
              /\ "acknowledge_received_data" \notin last'.engine]_vars

\* C11's case: one call surfaced two data notifications, both were acknowledged,
\* and bytes_to_send follows later
C11_TwoDataAcknowledged ==
    /\ impl = "h2"
    /\ last.op = "bytes_received"
    /\ Len(last.acked) = 2
    /\ Len(SelectSeq(_events, IsDataReceived)) = 2
    /\ ENABLED H2_bytes_to_send

\* C12: for the HTTP/2 adapter, at most one HandshakeCompleted event is ever
\* appended, whatever number of settings-acknowledged notifications the engine
\* surfaces; so no call appends two of them, and none appends one behind one that
\* is still queued.
C12_HandshakeCompletedOnce ==
    impl = "h2" => Len(SelectSeq(_events, IsHandshakeCompleted)) <= 1

\* C13: for the HTTP/2 adapter, a submit_stream_reset(stream_id, error_code) call the
\* engine accepts appends exactly one StreamResetSent(stream_id, error_code) at the
\* tail of the queue, behind every event already queued; a call the engine rejects,
\* and a bytes_received call, append no StreamResetSent.
C13_StreamResetSentAtTail ==
    [][impl = "h2" =>
         /\ last'.op = "submit_stream_reset" /\ last'.raised = "none"
            => _events' = Append(_events, [type |-> "StreamResetSent",
                                           stream_id |-> last'.arg,
                                           error_code |-> last'.error_code])
         /\ last'.op = "submit_stream_reset" /\ last'.raised # "none"
            => _events' = _events
         /\ last'.op = "bytes_received"
            => OnlyAppended /\ SelectSeq(Appended, IsStreamResetSent) = <<>>]_vars

\* C13's case: the reset was submitted with another event queued, and its event is
\* the last of the queue
C13_ResetBehindQueued ==
    /\ impl = "h2"
    /\ last.op = "submit_stream_reset"
    /\ last.raised = "none"
    /\ Len(_events) >= 2
    /\ ~IsStreamResetSent(_events[1])
    /\ _events[Len(_events)] = [type |-> "StreamResetSent", stream_id |-> last.arg,
                                error_code |-> last.error_code]

\* C14: a server-role HTTP3ProtocolImpl has its HTTP/3 layer from construction on,
\* so that a bytes_received or a timer-fired clock call made first does not fail for
\* the missing layer, and none of its calls performs the client's
\* handshake-initiation call (connect) on the QUIC engine.
C14_ServerLayerFromConstruction ==
    impl = "h3" /\ is_client = FALSE /\ constructed
        => /\ _http
           /\ "connect" \notin last.engine
           /\ ~(last.op \in {"bytes_received", "clock"} /\ last.raised = "AssertionError")

\* C19: a client-role HTTP3ProtocolImpl constructed without a remote address raises
\* ValueError and leaves no instance (no call is ever made on it, nothing is queued);
\* every other construction returns an instance with an empty queue, an empty
\* connection-id set and terminated = false.
C19_ClientNeedsRemoteAddress ==
    impl = "h3" =>
        IF is_client /\ _remote_address = NoMessage
        THEN /\ last.op = "init"
             /\ last.raised = "ValueError"
             /\ ~constructed
             /\ _events = <<>>
        ELSE /\ constructed
             /\ last.op = "init" =>
                  /\ last.raised = "none"
                  /\ _events = <<>>
                  /\ _connection_ids = {}
                  /\ _terminated = FALSE

\* C19's cases: the construction that fails, and a server constructed without a
\* remote address that went on to work
C19_ConstructionFailed ==
    /\ impl = "h3"
    /\ is_client = TRUE
    /\ _remote_address = NoMessage
    /\ last = Raised("init", {}, "ValueError")

\* C15: for the HTTP/3 adapters, submit_close(error_code) asks the QUIC engine to
\* close with that error code and with frame subtype 0x1D (29) exactly when the code
\* is non-zero, 0x1C (28) exactly when it is zero (the default); the call appends no
\* event and leaves the terminated flag as it was.
C15_CloseFrameType ==
    [][IsH3 /\ last'.op = "submit_close" =>
         /\ last'.engine = {"close"}
         /\ last'.arg \in ErrorCodes
         /\ (last'.frame_type = 29) = (last'.arg # 0)
         /\ (last'.frame_type = 28) = (last'.arg = 0)
         /\ _events' = _events
         /\ _terminated' = _terminated]_vars

\* C15's case: a close with a non-zero code, made with nothing queued
C15_ApplicationClose ==
    /\ IsH3
    /\ last.op = "submit_close"
    /\ last.arg = 1
    /\ last.frame_type = 29
    /\ _events = <<>>
    /\ ~_terminated

\* C16: for the HTTP/2 adapter, bytes_received with empty input is a no-op in every
\* state: the engine is not called (so its pending outbound bytes stay as they
\* were), nothing is raised, and the queue and the terminated flag are unchanged.
C16_EmptyInputIsNoOp ==
    [][impl = "h2" /\ last'.op = "bytes_received" /\ last'.data = "" =>
         /\ last'.engine = {}
         /\ last'.raised = "none"
         /\ last'.caught = "none"
         /\ last'.acked = <<>>
         /\ _events' = _events
         /\ _terminated' = _terminated
         /\ ct_appended' = ct_appended]_vars

\* C16's case: empty input given to an adapter that is terminated and has events
\* queued
C16_EmptyInputWhenTerminated ==
    /\ impl = "h2"
    /\ last.op = "bytes_received"
    /\ last.data = ""
    /\ _terminated
    /\ Len(_events) = 2

\* C20: for every adapter, the HeadersReceived events a call appends carry, one per
\* native headers notification and in order, exactly the notification's header list
\* (same length, same pairs, same order, repeated pairs kept); and submit_headers
\* hands the engine exactly the caller's header list.
C20_HeaderOrderPreserved ==
    [][/\ last'.op \in {"bytes_received", "clock"} /\ last'.raised = "none"
          => /\ OnlyAppended
             /\ EventHeaderLists(Appended) = NativeHeaderLists(last'.native)
       /\ last'.op = "submit_headers" /\ "send_headers" \in last'.engine
          => /\ Len(last'.sent_headers) = Len(last'.headers)
             /\ \A i \in 1..Len(last'.headers) :
                  last'.sent_headers[i] = last'.headers[i]]_vars

\* C20's case: a call appended two HeadersReceived events, each with the native
\* list and its repeated pair
C20_RepeatedHeaderReceived ==
    /\ last.op = "bytes_received"
    /\ Len(NativeHeaderLists(last.native)) = 2
    /\ EventHeaderLists(_events) = NativeHeaderLists(last.native)
    /\ Len(EventHeaderLists(_events)[1]) = 3
    /\ EventHeaderLists(_events)[1][1] = EventHeaderLists(_events)[1][2]

\* C17: two adapter instances share no mutable state: a call on one of them leaves
\* the queue, the terminated flag and the connection-id set of the other as they
\* were, so what A holds and what next_event() drains from A (the head of A's own
\* queue) are what A's own calls made them, whatever is called on B in between.
C17_InstancesIndependent ==
    [][\A i \in Instances :
         /\ two'.via # i => TwoView(two', i) = TwoView(two, i)
         /\ two'.via = i /\ two'.op = "next_event"
            => TwoView(two', i).events = Tail(TwoView(two, i).events)]_vars

\* C17's case: A and B of the same class were both called; A holds two events and is
\* terminated, B holds one event of its own and is not
C17_BothCalled ==
    /\ two.obj["A"].impl = two.obj["B"].impl
    /\ Len(TwoView(two, "A").events) = 2
    /\ TwoView(two, "A").terminated
    /\ Len(TwoView(two, "B").events) = 1
    /\ ~TwoView(two, "B").terminated
    /\ two.via = "B"
    /\ two.op = "bytes_received"

\* C18: QuicTLSConfig.clone() has deep-copy semantics: the clone is equal to the
\* original in every field when it is made, and afterwards no change made through
\* one of the two (a field assigned, or the object a field holds mutated) is
\* observable through the other.
C18_CloneIsDeepCopy ==
    [][tls'.held["clone"] # <<>> =>
         IF tls'.op = "clone"
         THEN TlsObserved(tls', "clone") = TlsObserved(tls, "original")
         ELSE \A c \in Configs :
                tls'.via # c => TlsObserved(tls', c) = TlsObserved(tls, c)]_vars

\* C21: for the HTTP/3 adapters, clock(now) calls the engine's timer housekeeping and
\* runs the event-mapping pass only when the engine has a deadline and now >=
\* deadline; otherwise it asks the engine for the deadline and nothing more, and the
\* queue, the terminated flag, the connection-id set and the engine's notifications
\* stay as they were. The events of a pass a fired timer ran are those the
\* notifications map to, as for bytes_received.
C21_ClockGatedByDeadline ==
    [][IsH3 /\ last'.op = "clock" =>
         LET due == last'.timer # None /\ last'.arg >= last'.timer IN
         /\ ("handle_timer" \in last'.engine) = due
         /\ "next_event" \in last'.engine => due
         /\ ~due => /\ last'.engine = {"get_timer"}
                    /\ last'.raised = "none"
                    /\ _events' = _events
                    /\ _terminated' = _terminated
                    /\ _connection_ids' = _connection_ids
                    /\ quic_events' = quic_events
                    /\ quic_close_event' = quic_close_event
                    /\ quic_closed' = quic_closed
         /\ IsPass(last') =>
              /\ OnlyAppended
              /\ Len(Appended) >= Len(PassEvents(last'.native))
              /\ SubSeq(Appended, 1, Len(PassEvents(last'.native)))
                     = PassEvents(last'.native)
              /\ impl = "h3" => Appended = PassEvents(last'.native)]_vars

\* C21's case: clock was called at the very deadline, the timer fired and the pass
\* queued the events of the notifications it fetched
C21_FiredAtDeadline ==
    /\ IsH3
    /\ last.op = "clock"
    /\ last.timer # None
    /\ last.arg = last.timer
    /\ IsPass(last)
    /\ Len(last.native) = 2
    /\ _events = PassEvents(last.native)
    /\ Len(_events) >= 2

\* C22: for a client-role HTTP/3 adapter, the first bytes_to_send() (whatever was or
\* was not submitted before it) calls the engine's connect and creates the HTTP/3
\* layer; every later bytes_to_send() only collects the engine's datagrams; no
\* other call connects, creates or removes the layer.
C22_HandshakeInitiatedOnce ==
    [][IsH3 /\ is_client =>
         /\ _http => _http'
         /\ IF last'.op = "bytes_to_send"
            THEN /\ _http'
                 /\ "datagrams_to_send" \in last'.engine
                 /\ ("connect" \in last'.engine) = ~_http
                 /\ ("H3Connection" \in last'.engine) = ~_http
            ELSE /\ _http' = _http
                 /\ "connect" \notin last'.engine
                 /\ "H3Connection" \notin last'.engine]_vars

\* C22's case: a second bytes_to_send() on a client that submitted nothing before
\* the first
C22_SecondBytesToSend ==
    /\ IsH3
    /\ is_client
    /\ _http
    /\ last.op = "bytes_to_send"
    /\ last.engine = {"datagrams_to_send"}
    /\ streams = {}

\* C25: for the HTTP/2 adapter, a call that fails inside the engine leaves the queue
\* as it was apart from the terminal event: a submit_stream_reset the engine rejects
\* appends nothing; a bytes_received in which the engine raises surfaces no
\* notification and appends nothing, except that a ProtocolError on an adapter not
\* yet terminated appends the one ConnectionTerminated event with the error's code
\* and text.
C25_EngineFailureKeepsQueue ==
    [][impl = "h2" =>
         /\ last'.op = "submit_stream_reset" /\ last'.raised # "none"
            => _events' = _events /\ _terminated' = _terminated
         /\ last'.op = "bytes_received" /\ (last'.raised # "none" \/ last'.caught # "none")
            => /\ last'.native = <<>>
               /\ last'.acked = <<>>
               /\ IF last'.caught = "ProtocolError" /\ ~_terminated
                  THEN /\ _terminated'
                       /\ _events' = Append(_events, [type |-> "ConnectionTerminated",
                                                      error_code |-> 1,
                                                      message |-> "err"])
                  ELSE _events' = _events /\ _terminated' = _terminated]_vars

\* C25's case: the engine raised a ProtocolError in bytes_received with an event
\* queued, and the ConnectionTerminated event is the only one added behind it
C25_ProtocolErrorBehindQueued ==
    /\ impl = "h2"
    /\ last.op = "bytes_received"
    /\ last.caught = "ProtocolError"
    /\ Len(_events) = 2
    /\ ~IsCT(_events[1])
    /\ _events[2] = [type |-> "ConnectionTerminated", error_code |-> 1, message |-> "err"]

\* C23: in every state of the three adapters is_available() is the negation of
\* has_expired(); the terminated flag they read is false after construction, never
\* goes back to false, and is left as it was by next_event(), bytes_to_send(),
\* get_available_stream_id() and every submit_* call.
C23_AvailableIffNotExpired ==
    [][constructed =>
         /\ is_available = ~has_expired
         /\ is_available' = ~has_expired'
         /\ has_expired = _terminated
         /\ last.op = "init" => ~_terminated
         /\ _terminated => _terminated'
         /\ last'.op \in {"next_event", "bytes_to_send", "get_available_stream_id"}
                \/ IsSubmit(last'.op)
            => _terminated' = _terminated]_vars

\* C23's case: a submit_* call made on a terminated adapter, which stays terminated
\* and unavailable
C23_SubmitWhenExpired ==
    /\ constructed
    /\ IsSubmit(last.op)
    /\ has_expired
    /\ ~is_available

\* C24: in every state of the three adapters the terminated flag is true exactly if
\* a ConnectionTerminated event has been appended to the queue, be it still queued
\* or drained already; so no ConnectionTerminated event is queued while
\* has_expired() is false.
C24_TerminatedIffAppended ==
    constructed =>
        /\ _terminated = (ct_appended > 0)
        /\ CountCT(_events) > 0 => has_expired /\ ct_appended > 0

\* C24's case: has_expired() is true while an earlier event and the
\* ConnectionTerminated event itself are still queued
C24_ExpiredWithEventsPending ==
    /\ has_expired
    /\ Len(_events) = 2
    /\ ~IsCT(_events[1])
    /\ IsCT(_events[2])
    /\ ct_appended = 1
====
